---- MODULE Spec2Model ----
(***************************************************************************)
(* Model of utils/keys.go of gm-crypto: conversion of SM2 private and     *)
(* public keys to and from PEM, plain or password-encrypted.               *)
(*                                                                         *)
(* Byte strings are sequences of 0..255.  DER is modelled at the byte     *)
(* level (tag, length, content); every structure the code builds is       *)
(* shorter than 128 bytes on the model's curve, so only the short length  *)
(* form occurs.  A PEM text is a sequence of lines; the body line holds   *)
(* the base64 symbols (0..63, 64 for '=').                                 *)
(***************************************************************************)
EXTENDS Integers, Sequences, FiniteSets, TLC

\* the field names of the records below; every record lists its fields in
\* this order
FieldOrder ==
    [nil |-> 1, ok |-> 2, err |-> 3, type |-> 4, fn |-> 5, kind |-> 6,
     text |-> 7, name |-> 8, value |-> 9, tag |-> 10, content |-> 11,
     items |-> 12, bytes |-> 13, Type |-> 14, Headers |-> 15,
     Bytes |-> 16, Name |-> 17, N |-> 18, P |-> 19, BitSize |-> 20,
     Gx |-> 21, Gy |-> 22, Curve |-> 23, D |-> 24, X |-> 25, Y |-> 26,
     Version |-> 27, Algorithm |-> 28, Parameters |-> 29,
     PrivateKeyAlgorithm |-> 30, PrivateKey |-> 31,
     NamedCurveOID |-> 32, PublicKey |-> 33, key |-> 34, pub |-> 35,
     pwd |-> 36, raw |-> 37, iv |-> 38, data |-> 39]

VARIABLES call, ret, store

vars == <<call, ret, store>>

(***************************************************************************)
(* Bounds of the model.                                                    *)
(***************************************************************************)
\* scalars 1..MaxSmallD are drawn next to the large ones
MaxSmallD == 1
\* passwords are <<>> and the one-byte strings <<1>> .. <<MaxPwd>>
MaxPwd == 2
\* values the random source may deliver as IV
MaxIV == 1

(***************************************************************************)
(* The curve-key primitive library (package sm2), on a small group.       *)
(***************************************************************************)
\* a curve with a 9-bit order: scalars and coordinates take two bytes
P256Sm2 == [Name |-> "SM2", N |-> 263, P |-> 271, BitSize |-> 9, Gx |-> 2, Gy |-> 3]

\* curve.ScalarBaseMult: the public point of scalar d
ScalarBaseMult(curve, d) == [X |-> (curve.Gx * d) % curve.P, Y |-> (curve.Gy * d) % curve.P]

NilCurve == [Name |-> "nil", N |-> 0, P |-> 0, BitSize |-> 0, Gx |-> 0, Gy |-> 0]

\* (*sm2.PrivateKey)(nil)
NilKey == [nil |-> TRUE, Curve |-> NilCurve, D |-> 0, X |-> 0, Y |-> 0]

\* (*sm2.PublicKey)(nil)
NilPub == [nil |-> TRUE, Curve |-> NilCurve, X |-> 0, Y |-> 0]

\* a validly generated private key with scalar d
PrivateKey(d) ==
    LET q == ScalarBaseMult(P256Sm2, d)
    IN  [nil |-> FALSE, Curve |-> P256Sm2, D |-> d, X |-> q.X, Y |-> q.Y]

\* the public half of a private key
PublicKey(k) == [nil |-> k.nil, Curve |-> k.Curve, X |-> k.X, Y |-> k.Y]

(***************************************************************************)
(* math/big and byte helpers.                                              *)
(***************************************************************************)
RECURSIVE IntBytes(_)
\* big.Int.Bytes: the minimal big-endian bytes of n (none for 0)
IntBytes(n) == IF n = 0 THEN <<>> ELSE Append(IntBytes(n \div 256), n % 256)

RECURSIVE SetBytes(_)
\* big.Int.SetBytes: the big-endian integer of b
SetBytes(b) ==
    IF b = <<>> THEN 0 ELSE SetBytes(SubSeq(b, 1, Len(b) - 1)) * 256 + b[Len(b)]

RECURSIVE BitLen(_)
\* big.Int.BitLen
BitLen(n) == IF n = 0 THEN 0 ELSE 1 + BitLen(n \div 2)

\* make([]byte, n)
Zeros(n) == [i \in 1..n |-> 0]

RECURSIVE SumSeq(_)
SumSeq(b) == IF b = <<>> THEN 0 ELSE b[1] + SumSeq(Tail(b))

\* the byte width of the curve order, (N.BitLen()+7)/8
OrderWidth(curve) == (BitLen(curve.N) + 7) \div 8

\* a mutation: the scalar bytes copied to the front of the buffer
PadFront(privateKeyBytes, width) ==
    privateKeyBytes \o Zeros(width - Len(privateKeyBytes))

\* paddedPrivateKey: make(width), then copy the bytes into its tail
PaddedPrivateKey(privateKeyBytes, width) ==
    Zeros(width - Len(privateKeyBytes)) \o privateKeyBytes

\* elliptic.Marshal: 0x04 || X || Y, each padded to the field byte width
EllipticMarshal(curve, x, y) ==
    LET byteLen == (curve.BitSize + 7) \div 8
    IN  <<4>> \o PaddedPrivateKey(IntBytes(x), byteLen)
              \o PaddedPrivateKey(IntBytes(y), byteLen)

(***************************************************************************)
(* encoding/asn1.                                                          *)
(***************************************************************************)
oidNamedCurveSm2 == <<1, 2, 156, 10197, 1, 301>>
oidPublicKeyECDSA == <<1, 2, 840, 10045, 2, 1>>

TagInteger == 2
TagBitString == 3
TagOctetString == 4
TagOID == 6
TagSequence == 48
TagExplicit0 == 160
TagExplicit1 == 161

RECURSIVE Base128(_)
\* the base-128 digits of n, most significant first, continuation bits unset
Base128(n) == IF n < 128 THEN <<n>> ELSE Append(Base128(n \div 128), n % 128)

\* one arc of an object identifier: all digits but the last carry bit 8
Arc(n) ==
    LET d == Base128(n)
    IN  [i \in 1..Len(d) |-> IF i < Len(d) THEN d[i] + 128 ELSE d[i]]

RECURSIVE Arcs(_)
Arcs(s) == IF s = <<>> THEN <<>> ELSE Arc(s[1]) \o Arcs(Tail(s))

\* the content bytes of an object identifier
OIDBody(oid) == Arc(40 * oid[1] + oid[2]) \o Arcs(SubSeq(oid, 3, Len(oid)))

\* tag, length (short form), content
TLV(tag, content) == <<tag, Len(content)>> \o content

MarshalOID(oid) == TLV(TagOID, OIDBody(oid))

\* asn1.Marshal of a small non-negative int
MarshalInt(v) == TLV(TagInteger, <<v>>)

\* asn1.Marshal of asn1.BitString{Bytes: b}: no unused bits
MarshalBitString(b) == TLV(TagBitString, <<0>> \o b)

RECURSIVE ParseTLVs(_)
\* the elements laid end to end in b, or failure
ParseTLVs(b) ==
    IF b = <<>> THEN [ok |-> TRUE, items |-> <<>>]
    ELSE IF Len(b) < 2 THEN [ok |-> FALSE, items |-> <<>>]
    ELSE IF b[2] >= 128 \/ Len(b) < 2 + b[2] THEN [ok |-> FALSE, items |-> <<>>]
    ELSE LET rest == ParseTLVs(SubSeq(b, 3 + b[2], Len(b)))
         IN  [ok |-> rest.ok,
              items |-> <<[tag |-> b[1], content |-> SubSeq(b, 3, 2 + b[2])]>>
                            \o rest.items]

\* the elements inside the SEQUENCE that heads the parsed elements top
Inside(top) ==
    IF top.ok /\ Len(top.items) >= 1
    THEN IF top.items[1].tag = TagSequence
         THEN ParseTLVs(top.items[1].content)
         ELSE [ok |-> FALSE, items |-> <<>>]
    ELSE [ok |-> FALSE, items |-> <<>>]

\* the elements inside the SEQUENCE that b holds, or failure
SequenceOf(b) == Inside(ParseTLVs(b))

(***************************************************************************)
(* The two private-key structures of keys.go and their encodings.         *)
(***************************************************************************)
\* asn1.Marshal(ecPrivateKey{...}); the optional NamedCurveOID is left out
\* when it is empty
MarshalEcPrivateKey(v) ==
    TLV(TagSequence,
        MarshalInt(v.Version)
        \o TLV(TagOctetString, v.PrivateKey)
        \o (IF v.NamedCurveOID = <<>> THEN <<>>
            ELSE TLV(TagExplicit0, MarshalOID(v.NamedCurveOID)))
        \o TLV(TagExplicit1, MarshalBitString(v.PublicKey)))

\* asn1.Marshal(pkcs8Info{...})
MarshalPkcs8Info(v) ==
    TLV(TagSequence,
        MarshalInt(v.Version)
        \o TLV(TagSequence, MarshalOID(v.PrivateKeyAlgorithm[1])
                            \o MarshalOID(v.PrivateKeyAlgorithm[2]))
        \o TLV(TagOctetString, v.PrivateKey))

NoEcPrivateKey == [ok |-> FALSE,
                   Version |-> 0,
                   PrivateKey |-> <<>>,
                   NamedCurveOID |-> <<>>,
                   PublicKey |-> <<>>]

\* the content of the one element of kind tag that b holds, or failure
Explicit(b, tag) ==
    IF Len(b) < 2 THEN [ok |-> FALSE, bytes |-> <<>>]
    ELSE IF b[1] # tag \/ b[2] # Len(b) - 2 THEN [ok |-> FALSE, bytes |-> <<>>]
    ELSE [ok |-> TRUE, bytes |-> SubSeq(b, 3, Len(b))]

\* the fields of an ecPrivateKey from the elements s of its SEQUENCE, the
\* tagged ones optional; i0 and i1 are where [0] and [1] stand, 0 if absent
EcPrivateKeyFields(s, i0, i1, oid, pub) ==
    IF ~s.ok \/ Len(s.items) < 2 THEN NoEcPrivateKey
    ELSE IF s.items[1].tag # TagInteger \/ Len(s.items[1].content) # 1
            \/ s.items[2].tag # TagOctetString
    THEN NoEcPrivateKey
    ELSE IF (i0 # 0 /\ ~oid.ok) \/ (i1 # 0 /\ ~pub.ok) THEN NoEcPrivateKey
    ELSE [ok |-> TRUE,
          Version |-> s.items[1].content[1],
          PrivateKey |-> s.items[2].content,
          NamedCurveOID |-> IF i0 # 0 THEN oid.bytes ELSE <<>>,
          PublicKey |-> IF i1 # 0 THEN Tail(pub.bytes) ELSE <<>>]

\* where the element with the explicit tag stands among items, looking
\* at position i only; 0 if it is not there
TaggedAt(items, i, tag) ==
    IF Len(items) >= i THEN (IF items[i].tag = tag THEN i ELSE 0) ELSE 0

\* the content of element i of items, none for i = 0
ContentAt(items, i) == IF i = 0 THEN <<>> ELSE items[i].content

\* the ecPrivateKey in the elements s: [0] is looked for third, [1]
\* after it
EcPrivateKeyOf(s, i0) ==
    EcPrivateKeyFields(s, i0, TaggedAt(s.items, IF i0 # 0 THEN 4 ELSE 3, TagExplicit1),
        Explicit(ContentAt(s.items, i0), TagOID),
        Explicit(ContentAt(s.items, TaggedAt(s.items, IF i0 # 0 THEN 4 ELSE 3, TagExplicit1)),
                 TagBitString))

\* the ecPrivateKey in the elements s of a SEQUENCE
EcPrivateKeyIn(s) == EcPrivateKeyOf(s, TaggedAt(s.items, 3, TagExplicit0))

\* asn1.Unmarshal(der, &ecPrivateKey): the fields in order, the tagged
\* ones optional; NamedCurveOID and PublicKey hold their content bytes
UnmarshalEcPrivateKey(der) == EcPrivateKeyIn(SequenceOf(der))

NoPkcs8 == [ok |-> FALSE,
            Version |-> 0,
            Algorithm |-> <<>>,
            Parameters |-> <<>>,
            PrivateKey |-> <<>>]

\* the fields of a pkcs8 from the elements s of its SEQUENCE and the
\* elements alg of its algorithm identifier
Pkcs8Fields(s, alg) ==
    IF ~s.ok \/ Len(s.items) < 3 THEN NoPkcs8
    ELSE IF s.items[1].tag # TagInteger \/ Len(s.items[1].content) # 1
            \/ s.items[2].tag # TagSequence
            \/ s.items[3].tag # TagOctetString
    THEN NoPkcs8
    ELSE IF ~alg.ok \/ Len(alg.items) < 1 THEN NoPkcs8
    ELSE IF alg.items[1].tag # TagOID THEN NoPkcs8
    ELSE [ok |-> TRUE,
          Version |-> s.items[1].content[1],
          Algorithm |-> alg.items[1].content,
          Parameters |-> IF Len(alg.items) >= 2
                         THEN (IF alg.items[2].tag = TagOID
                               THEN alg.items[2].content ELSE <<>>)
                         ELSE <<>>,
          PrivateKey |-> s.items[3].content]

\* the pkcs8 in the elements s of a SEQUENCE
Pkcs8In(s) == Pkcs8Fields(s, ParseTLVs(ContentAt(s.items, IF Len(s.items) >= 2 THEN 2 ELSE 0)))

\* asn1.Unmarshal(der, &pkcs8): INTEGER version, SEQUENCE {OID algorithm,
\* parameters}, OCTET STRING key; Algorithm and Parameters hold the
\* content bytes of their object identifiers
UnmarshalPkcs8(der) == Pkcs8In(SequenceOf(der))

(***************************************************************************)
(* Package x509 of the repository: key parsing and marshalling.           *)
(***************************************************************************)
\* the result of a parse: err is "nil" or the error, type the dynamic
\* type of the key returned
ParseFailed(e) == [err |-> e, type |-> "none", key |-> NilKey, pub |-> NilPub]

\* the key of scalar k on the curve named by oid, the point derived
ECKeyOfScalar(oid, version, k, q) ==
    IF version # 1 THEN ParseFailed("ParseError")
    ELSE IF oid # OIDBody(oidNamedCurveSm2) THEN ParseFailed("ParseError")
    ELSE IF k >= P256Sm2.N THEN ParseFailed("ParseError")
    ELSE [err |-> "nil",
          type |-> "sm2.PrivateKey",
          key |-> [nil |-> FALSE, Curve |-> P256Sm2, D |-> k, X |-> q.X, Y |-> q.Y],
          pub |-> NilPub]

\* the key in the parsed structure v: the scalar from the octet string,
\* the curve from the OID handed in or else from the structure
ECKeyOf(namedCurveOID, v) ==
    IF ~v.ok THEN ParseFailed("ParseError")
    ELSE ECKeyOfScalar(IF namedCurveOID # <<>> THEN namedCurveOID ELSE v.NamedCurveOID,
                       v.Version, SetBytes(v.PrivateKey),
                       ScalarBaseMult(P256Sm2, SetBytes(v.PrivateKey)))

\* x509.parseECPrivateKey
ParseECPrivateKey(namedCurveOID, der) == ECKeyOf(namedCurveOID, UnmarshalEcPrivateKey(der))

\* the key in the parsed container v
KeyOfPkcs8(v) ==
    IF ~v.ok THEN ParseFailed("ParseError")
    ELSE IF v.Algorithm # OIDBody(oidPublicKeyECDSA) THEN ParseFailed("ParseError")
    ELSE ParseECPrivateKey(v.Parameters, v.PrivateKey)

\* x509.ParsePKCS8PrivateKey: the payload is a PKCS8-style container whose
\* inner key material is the curve-specific private key
ParsePKCS8PrivateKey(der) == KeyOfPkcs8(UnmarshalPkcs8(der))

\* x509.MarshalPKIXPublicKey: the standard public-key-info structure
MarshalPKIXPublicKey(pub) ==
    TLV(TagSequence,
        TLV(TagSequence, MarshalOID(oidPublicKeyECDSA) \o MarshalOID(oidNamedCurveSm2))
        \o MarshalBitString(EllipticMarshal(pub.Curve, pub.X, pub.Y)))

\* the point (x, y) if data is its uncompressed encoding on the curve
PointOf(curve, data, byteLen, x, y) ==
    IF Len(data) # 1 + 2 * byteLen THEN [ok |-> FALSE, X |-> 0, Y |-> 0]
    ELSE IF data[1] # 4 \/ x >= curve.P \/ y >= curve.P
            \/ (curve.Gy * x) % curve.P # (curve.Gx * y) % curve.P
    THEN [ok |-> FALSE, X |-> 0, Y |-> 0]
    ELSE [ok |-> TRUE, X |-> x, Y |-> y]

\* elliptic.Unmarshal: an uncompressed point of the curve, or failure
EllipticUnmarshal(curve, data) ==
    PointOf(curve, data, (curve.BitSize + 7) \div 8,
            SetBytes(SubSeq(data, 2, 1 + (curve.BitSize + 7) \div 8)),
            SetBytes(SubSeq(data, 2 + (curve.BitSize + 7) \div 8,
                            1 + 2 * ((curve.BitSize + 7) \div 8))))

\* the public key of point q
PubOfPoint(q) ==
    IF ~q.ok THEN ParseFailed("ParseError")
    ELSE [err |-> "nil",
          type |-> "sm2.PublicKey",
          key |-> NilKey,
          pub |-> [nil |-> FALSE, Curve |-> P256Sm2, X |-> q.X, Y |-> q.Y]]

\* the public key in the public-key-info whose SEQUENCE holds s, the
\* algorithm identifier holding alg
PubOfFields(s, alg) ==
    IF ~s.ok \/ Len(s.items) < 2 THEN ParseFailed("ParseError")
    ELSE IF s.items[1].tag # TagSequence \/ s.items[2].tag # TagBitString
    THEN ParseFailed("ParseError")
    ELSE IF ~alg.ok \/ Len(alg.items) < 2 THEN ParseFailed("ParseError")
    ELSE IF alg.items[1] # [tag |-> TagOID, content |-> OIDBody(oidPublicKeyECDSA)]
            \/ alg.items[2] # [tag |-> TagOID, content |-> OIDBody(oidNamedCurveSm2)]
    THEN ParseFailed("ParseError")
    ELSE IF s.items[2].content = <<>> THEN ParseFailed("ParseError")
    ELSE IF s.items[2].content[1] # 0 THEN ParseFailed("ParseError")
    ELSE PubOfPoint(EllipticUnmarshal(P256Sm2, Tail(s.items[2].content)))

\* the public key in the elements s of a SEQUENCE
PubIn(s) == PubOfFields(s, ParseTLVs(ContentAt(s.items, IF Len(s.items) >= 1 THEN 1 ELSE 0)))

\* x509.ParsePKIXPublicKey
ParsePKIXPublicKey(der) == PubIn(SequenceOf(der))

(***************************************************************************)
(* encoding/pem.                                                           *)
(***************************************************************************)
RECURSIVE Base64Encode(_)
\* base64.StdEncoding: three bytes to four symbols, '=' (64) as filler
Base64Encode(b) ==
    IF b = <<>> THEN <<>>
    ELSE IF Len(b) = 1 THEN <<b[1] \div 4, (b[1] % 4) * 16, 64, 64>>
    ELSE IF Len(b) = 2
    THEN <<b[1] \div 4, (b[1] % 4) * 16 + b[2] \div 16, (b[2] % 16) * 4, 64>>
    ELSE <<b[1] \div 4, (b[1] % 4) * 16 + b[2] \div 16,
           (b[2] % 16) * 4 + b[3] \div 64, b[3] % 64>>
         \o Base64Encode(SubSeq(b, 4, Len(b)))

RECURSIVE Base64Decode(_)
\* the bytes of a base64 text, or failure
Base64Decode(s) ==
    IF s = <<>> THEN [ok |-> TRUE, bytes |-> <<>>]
    ELSE IF Len(s) < 4 THEN [ok |-> FALSE, bytes |-> <<>>]
    ELSE IF s[1] = 64 \/ s[2] = 64 THEN [ok |-> FALSE, bytes |-> <<>>]
    ELSE IF s[3] = 64
    THEN [ok |-> s[4] = 64 /\ Len(s) = 4, bytes |-> <<s[1] * 4 + s[2] \div 16>>]
    ELSE IF s[4] = 64
    THEN [ok |-> Len(s) = 4,
          bytes |-> <<s[1] * 4 + s[2] \div 16, (s[2] % 16) * 16 + s[3] \div 4>>]
    ELSE LET rest == Base64Decode(SubSeq(s, 5, Len(s)))
         IN  [ok |-> rest.ok,
              bytes |-> <<s[1] * 4 + s[2] \div 16, (s[2] % 16) * 16 + s[3] \div 4,
                          (s[3] % 4) * 64 + s[4]>> \o rest.bytes]

\* one line of a PEM text
Line(kind, label, data) == [kind |-> kind, text |-> label, data |-> data]

\* (*pem.Block)(nil)
NilBlock == [nil |-> TRUE, Type |-> "", Headers |-> <<>>, Bytes |-> <<>>]

\* &pem.Block{Type, Headers, Bytes}; a header is [name, value]
Block(type, headers, bytes) ==
    [nil |-> FALSE, Type |-> type, Headers |-> headers, Bytes |-> bytes]

\* pem.EncodeToMemory: BEGIN line, headers, base64 body, END line
EncodeToMemory(b) ==
    <<Line("BEGIN", b.Type, <<>>)>>
    \o [i \in 1..Len(b.Headers) |-> Line("HEADER", b.Headers[i].name, b.Headers[i].value)]
    \o <<Line("BODY", "", Base64Encode(b.Bytes))>>
    \o <<Line("END", b.Type, <<>>)>>

RECURSIVE HeaderRun(_)
\* the header lines a text starts with
HeaderRun(lines) ==
    IF lines = <<>> THEN <<>>
    ELSE IF lines[1].kind # "HEADER" THEN <<>>
    ELSE <<[name |-> lines[1].text, value |-> lines[1].data]>> \o HeaderRun(Tail(lines))

\* the block of type blockType with headers hs, its body line and its END
\* line at i and i + 1 of lines, body being the decoded body
BlockOf(lines, hs, i, body) ==
    IF lines[i].kind # "BODY" \/ ~body.ok
       \/ lines[i + 1] # Line("END", lines[1].text, <<>>)
    THEN NilBlock
    ELSE Block(lines[1].text, hs, body.bytes)

\* the block that starts at the first line of lines and has headers hs
BlockWith(lines, hs) ==
    IF Len(lines) < 3 + Len(hs) THEN NilBlock
    ELSE IF lines[1].kind # "BEGIN" THEN NilBlock
    ELSE BlockOf(lines, hs, 2 + Len(hs), Base64Decode(lines[2 + Len(hs)].data))

\* the block that starts at the first line of lines, if one does
BlockAt(lines) == BlockWith(lines, HeaderRun(Tail(lines)))

RECURSIVE Decode(_)
\* pem.Decode: the first well-formed block of the text, nil if none
Decode(lines) ==
    IF lines = <<>> THEN NilBlock
    ELSE IF BlockAt(lines).nil THEN Decode(Tail(lines))
    ELSE BlockAt(lines)

(***************************************************************************)
(* Package x509 of the repository: password encryption of a PEM block.    *)
(***************************************************************************)
PEMCipherAES256 == 5

\* the value of header name in block b, <<>> when absent
Header(b, name) ==
    LET at == {i \in 1..Len(b.Headers) : b.Headers[i].name = name}
    IN  IF at = {} THEN <<>> ELSE b.Headers[CHOOSE i \in at : TRUE].value

\* the cipher key derived from the password and the IV
DeriveKey(password, iv) == ((SetBytes(password) + 7 * iv) % 251) + 1

\* the authentication tag of ciphertext ct under key
Tag(key, ct) == (key + 3 * SumSeq(ct)) % 256

\* the encrypted block of cipher text ct under key
Sealed(iv, blockType, alg, key, ct) ==
    Block(blockType,
          <<[name |-> "Proc-Type", value |-> <<4>>],
            [name |-> "DEK-Info", value |-> <<alg, iv>>]>>,
          Append(ct, Tag(key, ct)))

\* the cipher text of data under key
Encipher(data, key) == [i \in 1..Len(data) |-> (data[i] + key) % 256]

\* x509.EncryptPEMBlock: the data enciphered under the password, the
\* cipher and the IV recorded in the headers
EncryptPEMBlock(iv, blockType, data, password, alg) ==
    Sealed(iv, blockType, alg, DeriveKey(password, iv),
           Encipher(data, DeriveKey(password, iv)))

\* x509.IsEncryptedPEMBlock
IsEncryptedPEMBlock(b) == \E i \in 1..Len(b.Headers) : b.Headers[i].name = "DEK-Info"

\* the plain text of bytes under the password and the DEK-Info dek
Opened(bytes, password, dek) ==
    IF Len(dek) # 2 \/ Len(bytes) = 0 THEN [err |-> "DecryptError", bytes |-> <<>>]
    ELSE IF dek[1] # PEMCipherAES256
            \/ bytes[Len(bytes)] # Tag(DeriveKey(password, dek[2]),
                                        SubSeq(bytes, 1, Len(bytes) - 1))
    THEN [err |-> "DecryptError", bytes |-> <<>>]
    ELSE [err |-> "nil",
          bytes |-> [i \in 1..Len(bytes) - 1 |->
                        (bytes[i] - DeriveKey(password, dek[2])) % 256]]

\* x509.DecryptPEMBlock: fails on a cipher or password mismatch
DecryptPEMBlock(b, password) == Opened(b.Bytes, password, Header(b, "DEK-Info"))

(***************************************************************************)
(* utils/keys.go.  A result is [bytes, key, pub, err]; err is "nil" on    *)
(* success.  The error kinds are those of the design: InvalidKey (nil     *)
(* key), InvalidInput (empty input), DecodeError (no PEM block),          *)
(* MissingPassword, DecryptionError, ParseError (the DER parser's own     *)
(* error, handed on as it is), TypeMismatch.                               *)
(***************************************************************************)
Failure(e) == [err |-> e, bytes |-> <<>>, key |-> NilKey, pub |-> NilPub]

Exported(pemBytes) == [err |-> "nil", bytes |-> pemBytes, key |-> NilKey, pub |-> NilPub]

ImportedKey(k) == [err |-> "nil", bytes |-> <<>>, key |-> k, pub |-> NilPub]

ImportedPub(q) == [err |-> "nil", bytes |-> <<>>, key |-> NilKey, pub |-> q]

\* a mutation: the plain form carrying the NamedCurveOID too
PlainEcPrivateKeyWithOID(privateKey) ==
    [Version |-> 1,
     PrivateKey |-> PaddedPrivateKey(IntBytes(privateKey.D), OrderWidth(privateKey.Curve)),
     NamedCurveOID |-> oidNamedCurveSm2,
     PublicKey |-> EllipticMarshal(privateKey.Curve, privateKey.X, privateKey.Y)]

\* the ecPrivateKey literal of PrivateKeyToPEM: NamedCurveOID left out
PlainEcPrivateKey(privateKey) ==
    [Version |-> 1,
     PrivateKey |-> PaddedPrivateKey(IntBytes(privateKey.D), OrderWidth(privateKey.Curve)),
     NamedCurveOID |-> <<>>,
     PublicKey |-> EllipticMarshal(privateKey.Curve, privateKey.X, privateKey.Y)]

\* the ecPrivateKey literal of PrivateKeyToEncryptedPEM: NamedCurveOID set
EncryptedEcPrivateKey(priKey) ==
    [Version |-> 1,
     PrivateKey |-> PaddedPrivateKey(IntBytes(priKey.D), OrderWidth(priKey.Curve)),
     NamedCurveOID |-> oidNamedCurveSm2,
     PublicKey |-> EllipticMarshal(priKey.Curve, priKey.X, priKey.Y)]

\* a mutation: the two algorithm identifiers in the other order
Pkcs8KeySwapped(asn1Bytes) ==
    [Version |-> 0,
     PrivateKeyAlgorithm |-> <<oidNamedCurveSm2, oidPublicKeyECDSA>>,
     PrivateKey |-> asn1Bytes]

\* the pkcs8Info that PrivateKeyToPEM fills in around asn1Bytes
Pkcs8Key(asn1Bytes) ==
    [Version |-> 0,
     PrivateKeyAlgorithm |-> <<oidPublicKeyECDSA, oidNamedCurveSm2>>,
     PrivateKey |-> asn1Bytes]

\* PrivateKeyToEncryptedPEM; iv is what rand.Reader delivers
PrivateKeyToEncryptedPEM(priKey, pwd, iv) ==
    IF priKey.nil THEN Failure("InvalidKey")
    ELSE Exported(EncodeToMemory(
             EncryptPEMBlock(iv, "PRIVATE KEY",
                             MarshalEcPrivateKey(EncryptedEcPrivateKey(priKey)),
                             pwd, PEMCipherAES256)))

\* PrivateKeyToPEM of keys.go
PrivateKeyToPEM(privateKey, pwd, iv) ==
    IF Len(pwd) # 0 THEN PrivateKeyToEncryptedPEM(privateKey, pwd, iv)
    ELSE IF privateKey.nil THEN Failure("InvalidKey")
    ELSE Exported(EncodeToMemory(
             Block("PRIVATE KEY", <<>>,
                   MarshalPkcs8Info(Pkcs8Key(
                       MarshalEcPrivateKey(PlainEcPrivateKey(privateKey)))))))

\* the type assertion key.(*sm2.PrivateKey) on the result of the parse
AssertPrivateKey(parsed) ==
    IF parsed.err # "nil" THEN Failure(parsed.err)
    ELSE IF parsed.type = "sm2.PrivateKey" THEN ImportedKey(parsed.key)
    ELSE Failure("TypeMismatch")

\* the parse and the type assertion that end both branches of
\* PEMtoPrivateKey
PrivateKeyOfDER(der) == AssertPrivateKey(ParsePKCS8PrivateKey(der))

\* a mutation: the error of the decryption not looked at
PrivateKeyOfDecryptedUnchecked(decrypted) == PrivateKeyOfDER(decrypted.bytes)

\* PEMtoPrivateKey once the block is decrypted: the error test and the parse
PrivateKeyOfDecrypted(decrypted) ==
    IF decrypted.err # "nil" THEN Failure("DecryptionError")
    ELSE PrivateKeyOfDER(decrypted.bytes)

\* PEMtoPrivateKey once the text is decoded
PrivateKeyOfBlock(block, pwd) ==
    IF block.nil THEN Failure("DecodeError")
    ELSE IF IsEncryptedPEMBlock(block)
    THEN IF Len(pwd) = 0 THEN Failure("MissingPassword")
         ELSE PrivateKeyOfDecrypted(DecryptPEMBlock(block, pwd))
    ELSE PrivateKeyOfDER(block.Bytes)

\* PEMtoPrivateKey of keys.go
PEMtoPrivateKey(raw, pwd) ==
    IF Len(raw) = 0 THEN Failure("InvalidInput")
    ELSE PrivateKeyOfBlock(Decode(raw), pwd)

\* a mutation: the password looked at before the key
PublicKeyToEncryptedPEMPwdFirst(publicKey, pwd, iv) ==
    IF Len(pwd) = 0 THEN Failure("MissingPassword")
    ELSE IF publicKey.nil THEN Failure("InvalidKey")
    ELSE Exported(EncodeToMemory(
             EncryptPEMBlock(iv, "PUBLIC KEY", MarshalPKIXPublicKey(publicKey),
                             pwd, PEMCipherAES256)))

\* a mutation: an empty password let through to the cipher
PublicKeyToEncryptedPEMAnyPwd(publicKey, pwd, iv) ==
    IF publicKey.nil THEN Failure("InvalidKey")
    ELSE Exported(EncodeToMemory(
             EncryptPEMBlock(iv, "PUBLIC KEY", MarshalPKIXPublicKey(publicKey),
                             pwd, PEMCipherAES256)))

\* PublicKeyToEncryptedPEM of keys.go
PublicKeyToEncryptedPEM(publicKey, pwd, iv) ==
    IF publicKey.nil THEN Failure("InvalidKey")
    ELSE IF Len(pwd) = 0 THEN Failure("MissingPassword")
    ELSE Exported(EncodeToMemory(
             EncryptPEMBlock(iv, "PUBLIC KEY", MarshalPKIXPublicKey(publicKey),
                             pwd, PEMCipherAES256)))

\* PublicKeyToPEM of keys.go
PublicKeyToPEM(publicKey, pwd, iv) ==
    IF Len(pwd) # 0 THEN PublicKeyToEncryptedPEM(publicKey, pwd, iv)
    ELSE IF publicKey.nil THEN Failure("InvalidKey")
    ELSE Exported(EncodeToMemory(
             Block("PUBLIC KEY", <<>>, MarshalPKIXPublicKey(publicKey))))

\* the type assertion key.(*sm2.PublicKey) on the result of the parse
AssertPublicKey(parsed) ==
    IF parsed.err # "nil" THEN Failure(parsed.err)
    ELSE IF parsed.type = "sm2.PublicKey" THEN ImportedPub(parsed.pub)
    ELSE Failure("TypeMismatch")

\* the parse and the type assertion that end both branches of
\* PEMtoPublicKey
PublicKeyOfDER(der) == AssertPublicKey(ParsePKIXPublicKey(der))

\* PEMtoPublicKey once the block is decrypted: the error test and the parse
PublicKeyOfDecrypted(decrypted) ==
    IF decrypted.err # "nil" THEN Failure("DecryptionError")
    ELSE PublicKeyOfDER(decrypted.bytes)

\* a mutation: the payload of an encrypted block parsed as it stands
PublicKeyOfBlockNoDecrypt(block, pwd) ==
    IF block.nil THEN Failure("DecodeError")
    ELSE IF IsEncryptedPEMBlock(block) /\ Len(pwd) = 0 THEN Failure("MissingPassword")
    ELSE PublicKeyOfDER(block.Bytes)

\* a mutation: no test for an empty password
PublicKeyOfBlockNoPwdTest(block, pwd) ==
    IF block.nil THEN Failure("DecodeError")
    ELSE IF IsEncryptedPEMBlock(block)
    THEN PublicKeyOfDecrypted(DecryptPEMBlock(block, pwd))
    ELSE PublicKeyOfDER(block.Bytes)

\* PEMtoPublicKey once the text is decoded
PublicKeyOfBlock(block, pwd) ==
    IF block.nil THEN Failure("DecodeError")
    ELSE IF IsEncryptedPEMBlock(block)
    THEN IF Len(pwd) = 0 THEN Failure("MissingPassword")
         ELSE PublicKeyOfDecrypted(DecryptPEMBlock(block, pwd))
    ELSE PublicKeyOfDER(block.Bytes)

\* a mutation: no test for an empty input
PEMtoPublicKeyNoEmptyTest(raw, pwd) == PublicKeyOfBlock(Decode(raw), pwd)

\* PEMtoPublicKey of keys.go
PEMtoPublicKey(raw, pwd) ==
    IF Len(raw) = 0 THEN Failure("InvalidInput")
    ELSE PublicKeyOfBlock(Decode(raw), pwd)

(***************************************************************************)
(* The callers: keys are exported, the text is stored or carried, and     *)
(* what arrives is imported.  call is the last call's arguments, ret its  *)
(* result, store the last text an exporter returned and how it was made.  *)
(***************************************************************************)
Scalars == (1..MaxSmallD) \cup {256, P256Sm2.N - 1}

PrivKeys == {PrivateKey(d) : d \in Scalars} \cup {NilKey}

PubKeys == {PublicKey(k) : k \in PrivKeys}

Passwords == {<<>>} \cup {<<b>> : b \in 1..MaxPwd}

IVs == 1..MaxIV

\* bytes that are no PEM text
NotPEM == <<Line("TEXT", "not a pem", <<>>)>>

\* a text cut off before its END line
Truncated(pemText) == IF pemText = <<>> THEN NotPEM ELSE SubSeq(pemText, 1, Len(pemText) - 1)

\* a text whose payload was damaged on the way: the first base64 symbol of
\* the body is changed
Damaged(pemText) ==
    [i \in 1..Len(pemText) |->
        IF pemText[i].kind = "BODY" /\ pemText[i].data # <<>>
        THEN Line("BODY", "", <<(pemText[i].data[1] + 1) % 64>> \o Tail(pemText[i].data))
        ELSE pemText[i]]

\* what an importer may be handed when store holds the text
RawInputs(pemText) == {<<>>, NotPEM, pemText, Truncated(pemText), Damaged(pemText)}

NoStore == [fn |-> "none",
            bytes |-> <<>>,
            key |-> NilKey,
            pub |-> NilPub,
            pwd |-> <<>>,
            iv |-> 0]

Init ==
    /\ call = [fn |-> "none",
               key |-> NilKey,
               pub |-> NilPub,
               pwd |-> <<>>,
               raw |-> <<>>,
               iv |-> 0]
    /\ ret = Failure("nil")
    /\ store = NoStore

\* the store after an exporter fn was called and gave r: a text that was
\* returned replaces what was stored
Stored(fn, key, pub, pwd, iv, r) ==
    IF r.err = "nil"
    THEN [fn |-> fn, bytes |-> r.bytes, key |-> key, pub |-> pub, pwd |-> pwd, iv |-> iv]
    ELSE store

CallPrivateKeyToPEM ==
    \E k \in PrivKeys, pwd \in Passwords, iv \in IVs :
        /\ call' = [fn |-> "PrivateKeyToPEM", key |-> k, pub |-> NilPub, pwd |-> pwd,
                    raw |-> <<>>, iv |-> iv]
        /\ ret' = PrivateKeyToPEM(k, pwd, iv)
        /\ store' = Stored("PrivateKeyToPEM", k, NilPub, pwd, iv, ret')

CallPrivateKeyToEncryptedPEM ==
    \E k \in PrivKeys, pwd \in Passwords, iv \in IVs :
        /\ call' = [fn |-> "PrivateKeyToEncryptedPEM", key |-> k, pub |-> NilPub,
                    pwd |-> pwd, raw |-> <<>>, iv |-> iv]
        /\ ret' = PrivateKeyToEncryptedPEM(k, pwd, iv)
        /\ store' = Stored("PrivateKeyToEncryptedPEM", k, NilPub, pwd, iv, ret')

CallPEMtoPrivateKey ==
    \E raw \in RawInputs(store.bytes), pwd \in Passwords :
        /\ call' = [fn |-> "PEMtoPrivateKey", key |-> NilKey, pub |-> NilPub, pwd |-> pwd,
                    raw |-> raw, iv |-> 0]
        /\ ret' = PEMtoPrivateKey(raw, pwd)
        /\ UNCHANGED store

CallPublicKeyToPEM ==
    \E q \in PubKeys, pwd \in Passwords, iv \in IVs :
        /\ call' = [fn |-> "PublicKeyToPEM", key |-> NilKey, pub |-> q, pwd |-> pwd,
                    raw |-> <<>>, iv |-> iv]
        /\ ret' = PublicKeyToPEM(q, pwd, iv)
        /\ store' = Stored("PublicKeyToPEM", NilKey, q, pwd, iv, ret')

CallPublicKeyToEncryptedPEM ==
    \E q \in PubKeys, pwd \in Passwords, iv \in IVs :
        /\ call' = [fn |-> "PublicKeyToEncryptedPEM", key |-> NilKey, pub |-> q,
                    pwd |-> pwd, raw |-> <<>>, iv |-> iv]
        /\ ret' = PublicKeyToEncryptedPEM(q, pwd, iv)
        /\ store' = Stored("PublicKeyToEncryptedPEM", NilKey, q, pwd, iv, ret')

CallPEMtoPublicKey ==
    \E raw \in RawInputs(store.bytes), pwd \in Passwords :
        /\ call' = [fn |-> "PEMtoPublicKey", key |-> NilKey, pub |-> NilPub, pwd |-> pwd,
                    raw |-> raw, iv |-> 0]
        /\ ret' = PEMtoPublicKey(raw, pwd)
        /\ UNCHANGED store

Next ==
    \/ CallPrivateKeyToPEM
    \/ CallPrivateKeyToEncryptedPEM
    \/ CallPEMtoPrivateKey
    \/ CallPublicKeyToPEM
    \/ CallPublicKeyToEncryptedPEM
    \/ CallPEMtoPublicKey

Spec == Init /\ [][Next]_vars

(***************************************************************************)
(* Shorthands for the properties.                                          *)
(***************************************************************************)
\* the last call imported, with password pwd, exactly the stored text
ImportedStore(fn) == call.fn = fn /\ store.fn # "none" /\ call.raw = store.bytes

\* the stored text is a private-key export / a public-key export
StorePrivate == store.fn \in {"PrivateKeyToPEM", "PrivateKeyToEncryptedPEM"}

StorePublic == store.fn \in {"PublicKeyToPEM", "PublicKeyToEncryptedPEM"}

\* the last call returned no data
NoData == ret.bytes = <<>> /\ ret.key = NilKey /\ ret.pub = NilPub

TypeOK ==
    /\ call.fn \in {"none", "PrivateKeyToPEM", "PrivateKeyToEncryptedPEM",
                    "PEMtoPrivateKey", "PublicKeyToPEM", "PublicKeyToEncryptedPEM",
                    "PEMtoPublicKey"}
    /\ ret.err \in {"nil", "InvalidKey", "InvalidInput", "DecodeError",
                    "MissingPassword", "DecryptionError", "ParseError", "TypeMismatch"}
    /\ ret.err # "nil" => NoData

Importers == {"PEMtoPrivateKey", "PEMtoPublicKey"}

PrivateExporters == {"PrivateKeyToPEM", "PrivateKeyToEncryptedPEM"}

PublicExporters == {"PublicKeyToPEM", "PublicKeyToEncryptedPEM"}

\* the last call was an exporter handed a nil key
NilKeyExport ==
    \/ call.fn \in PrivateExporters /\ call.key.nil
    \/ call.fn \in PublicExporters /\ call.pub.nil

\* the PEM block in the text the last call returned
RetBlock == Decode(ret.bytes)

\* the DER payload of the text the last call returned: the block's bytes,
\* deciphered under the call's password when the block is encrypted
RetDER ==
    IF IsEncryptedPEMBlock(RetBlock) THEN DecryptPEMBlock(RetBlock, call.pwd).bytes
    ELSE RetBlock.Bytes

\* the EncodedPrivateKey in the text the last call returned: the payload
\* itself when encrypted, the PrivateKey field of the container when plain
RetEcPrivateKey ==
    IF IsEncryptedPEMBlock(RetBlock) THEN UnmarshalEcPrivateKey(RetDER)
    ELSE UnmarshalEcPrivateKey(UnmarshalPkcs8(RetDER).PrivateKey)

\* the last call was a private-key exporter that succeeded
PrivateExportDone == call.fn \in PrivateExporters /\ ret.err = "nil"

(***************************************************************************)
(* C1.  Private plain round trip: a valid private key exported with an    *)
(* empty password and imported with an empty password comes back, without *)
(* error, equal in D, X, Y and curve.                                      *)
(***************************************************************************)
C1_PrivatePlainRoundTrip ==
    (/\ ImportedStore("PEMtoPrivateKey")
     /\ store.fn = "PrivateKeyToPEM"
     /\ store.pwd = <<>>
     /\ call.pwd = <<>>)
    => (ret.err = "nil" /\ ret.key = store.key)

\* the key of scalar 1, whose bytes need padding, came back
C1_Witness ==
    /\ ImportedStore("PEMtoPrivateKey")
    /\ store.fn = "PrivateKeyToPEM"
    /\ store.pwd = <<>>
    /\ call.pwd = <<>>
    /\ store.key.D = 1
    /\ ret.key = PrivateKey(1)

(***************************************************************************)
(* C2.  Private encrypted round trip: a valid private key exported under  *)
(* a non-empty password and imported under the same password comes back,  *)
(* without error, equal in D, X, Y and curve.                              *)
(***************************************************************************)
C2_PrivateEncryptedRoundTrip ==
    (/\ ImportedStore("PEMtoPrivateKey")
     /\ StorePrivate
     /\ store.pwd # <<>>
     /\ call.pwd = store.pwd)
    => (ret.err = "nil" /\ ret.key = store.key)

(***************************************************************************)
(* C3.  Public round trip: a valid public key exported and imported under *)
(* the same password, empty or not, comes back equal in curve, X and Y.   *)
(***************************************************************************)
C3_PublicRoundTrip ==
    (/\ ImportedStore("PEMtoPublicKey")
     /\ StorePublic
     /\ call.pwd = store.pwd)
    => (ret.err = "nil" /\ ret.pub = store.pub)

\* an encrypted public key came back
C3_Witness ==
    /\ ImportedStore("PEMtoPublicKey")
    /\ StorePublic
    /\ store.pwd # <<>>
    /\ call.pwd = store.pwd
    /\ ~store.pub.nil
    /\ ret.pub = store.pub

(***************************************************************************)
(* C4.  Wrong password fails: a text exported under a non-empty password  *)
(* and imported by the matching importer under another non-empty password *)
(* gives DecryptionError and no key.                                       *)
(***************************************************************************)
C4_WrongPasswordFails ==
    (/\ \/ ImportedStore("PEMtoPrivateKey") /\ StorePrivate
        \/ ImportedStore("PEMtoPublicKey") /\ StorePublic
     /\ store.pwd # <<>>
     /\ call.pwd # <<>>
     /\ call.pwd # store.pwd)
    => (ret.err = "DecryptionError" /\ NoData)

\* a private key was imported under the wrong password
C4_Witness ==
    /\ ImportedStore("PEMtoPrivateKey")
    /\ StorePrivate
    /\ store.pwd # <<>>
    /\ call.pwd # <<>>
    /\ call.pwd # store.pwd
    /\ ret.err = "DecryptionError"

(***************************************************************************)
(* C5.  Missing password: an importer handed a text whose block is marked *)
(* encrypted, and an empty password, gives MissingPassword and no key,    *)
(* whether or not the payload could be deciphered or parsed.               *)
(***************************************************************************)
C5_MissingPasswordFails ==
    (/\ call.fn \in Importers
     /\ call.pwd = <<>>
     /\ ~Decode(call.raw).nil
     /\ IsEncryptedPEMBlock(Decode(call.raw)))
    => (ret.err = "MissingPassword" /\ NoData)

\* an encrypted text damaged on the way was imported without a password
C5_Witness ==
    /\ call.fn \in Importers
    /\ call.pwd = <<>>
    /\ store.pwd # <<>>
    /\ call.raw = Damaged(store.bytes)
    /\ IsEncryptedPEMBlock(Decode(call.raw))
    /\ DecryptPEMBlock(Decode(call.raw), store.pwd).err # "nil"
    /\ ret.err = "MissingPassword"

(***************************************************************************)
(* C6.  Nil key rejection: each of the four exporters handed a nil key    *)
(* gives InvalidKey and no bytes, for every password.                      *)
(***************************************************************************)
C6_NilKeyRejected == NilKeyExport => (ret.err = "InvalidKey" /\ NoData)

\* the encrypted public entry point was handed a nil key and no password
C6_Witness ==
    /\ call.fn = "PublicKeyToEncryptedPEM"
    /\ call.pub.nil
    /\ call.pwd = <<>>
    /\ ret.err = "InvalidKey"

(***************************************************************************)
(* C7.  Importer input validation: for every password an importer gives   *)
(* InvalidInput on an empty input and DecodeError on a non-empty input    *)
(* that holds no PEM block, and no key in either case.                     *)
(***************************************************************************)
C7_InputValidation ==
    call.fn \in Importers =>
        /\ call.raw = <<>> => (ret.err = "InvalidInput" /\ NoData)
        /\ (call.raw # <<>> /\ Decode(call.raw).nil) => (ret.err = "DecodeError" /\ NoData)

\* an encrypted text cut short was imported under its password
C7_Witness ==
    /\ call.fn \in Importers
    /\ store.pwd # <<>>
    /\ call.pwd = store.pwd
    /\ call.raw = Truncated(store.bytes)
    /\ ret.err = "DecodeError"

(***************************************************************************)
(* C8.  Two encode variants: PrivateKeyToPEM with an empty password gives *)
(* an unencrypted "PRIVATE KEY" block holding the container {0, [EC       *)
(* public key OID, SM2 curve OID], EncodedPrivateKey}, the inner key with *)
(* Version 1, no NamedCurveOID and the public point; with a non-empty     *)
(* password (and by PrivateKeyToEncryptedPEM always) the enciphered       *)
(* payload is an EncodedPrivateKey with Version 1, the SM2 curve OID and  *)
(* the public point, and no container around it.                           *)
(***************************************************************************)
C8_TwoEncodeVariants ==
    PrivateExportDone =>
        LET plain == call.fn = "PrivateKeyToPEM" /\ call.pwd = <<>>
            outer == SequenceOf(RetDER)
            inner == RetEcPrivateKey
            point == EllipticMarshal(call.key.Curve, call.key.X, call.key.Y)
        IN  /\ RetBlock.Type = "PRIVATE KEY"
            /\ inner.ok
            /\ inner.Version = 1
            /\ inner.PublicKey = point
            /\ plain =>
                /\ RetBlock.Headers = <<>>
                /\ outer.ok
                /\ Len(outer.items) = 3
                /\ outer.items[1] = [tag |-> TagInteger, content |-> <<0>>]
                /\ outer.items[2] =
                       [tag |-> TagSequence,
                        content |-> MarshalOID(oidPublicKeyECDSA)
                                    \o MarshalOID(oidNamedCurveSm2)]
                /\ outer.items[3].tag = TagOctetString
                /\ inner.NamedCurveOID = <<>>
            /\ ~plain =>
                /\ IsEncryptedPEMBlock(RetBlock)
                /\ ~UnmarshalPkcs8(RetDER).ok
                /\ inner.NamedCurveOID = OIDBody(oidNamedCurveSm2)

\* a plain export was made
C8_Witness ==
    /\ PrivateExportDone
    /\ call.fn = "PrivateKeyToPEM"
    /\ call.pwd = <<>>
    /\ RetEcPrivateKey.ok
    /\ RetEcPrivateKey.NamedCurveOID = <<>>

(***************************************************************************)
(* C9.  Fixed-width padding: in the plain and in the encrypted export the *)
(* PrivateKey field of EncodedPrivateKey is W = ceil(bitlen(N)/8) bytes   *)
(* long, W - len(bytes(D)) zero bytes followed by the minimal big-endian  *)
(* bytes of D, and decodes as a big-endian integer to D.                   *)
(***************************************************************************)
C9_FixedWidthPadding ==
    PrivateExportDone =>
        LET field == RetEcPrivateKey.PrivateKey
            W == (BitLen(call.key.Curve.N) + 7) \div 8
            minimal == IntBytes(call.key.D)
        IN  /\ RetEcPrivateKey.ok
            /\ Len(field) = W
            /\ field = Zeros(W - Len(minimal)) \o minimal
            /\ SetBytes(field) = call.key.D

\* the scalar 1 was exported under a password as a zero byte and 0x01
C9_Witness ==
    /\ PrivateExportDone
    /\ call.pwd # <<>>
    /\ call.key.D = 1
    /\ RetEcPrivateKey.PrivateKey = <<0, 1>>

(***************************************************************************)
(* C10.  Empty-password asymmetry: for a non-nil key PrivateKeyToPEM and  *)
(* PublicKeyToPEM with an empty password succeed with an unencrypted      *)
(* block and with a non-empty password return what the encrypted entry    *)
(* point returns on the same random draw; PublicKeyToEncryptedPEM with a  *)
(* non-nil key and an empty password gives MissingPassword and no bytes.  *)
(***************************************************************************)
C10_EmptyPasswordAsymmetry ==
    /\ (call.fn \in {"PrivateKeyToPEM", "PublicKeyToPEM"} /\ ~NilKeyExport /\ call.pwd = <<>>)
       => (ret.err = "nil" /\ ~RetBlock.nil /\ ~IsEncryptedPEMBlock(RetBlock))
    /\ (call.fn = "PrivateKeyToPEM" /\ ~NilKeyExport /\ call.pwd # <<>>)
       => ret = PrivateKeyToEncryptedPEM(call.key, call.pwd, call.iv)
    /\ (call.fn = "PublicKeyToPEM" /\ ~NilKeyExport /\ call.pwd # <<>>)
       => ret = PublicKeyToEncryptedPEM(call.pub, call.pwd, call.iv)
    /\ (call.fn = "PublicKeyToEncryptedPEM" /\ ~NilKeyExport /\ call.pwd = <<>>)
       => (ret.err = "MissingPassword" /\ NoData)

\* the encrypted public entry point refused an empty password
C10_Witness ==
    /\ call.fn = "PublicKeyToEncryptedPEM"
    /\ ~call.pub.nil
    /\ call.pwd = <<>>
    /\ ret.err = "MissingPassword"

====
